---- MODULE Spec2Model ----
(***************************************************************************)
(* The ScreenRecorder component (src/unnamed/part_000) as a state machine. *)
(*                                                                         *)
(* The React state of the component, its timer ref and the closure of its  *)
(* effect cleanup are the controller's state.  The browser objects the     *)
(* component drives (capture streams, MediaRecorders, interval timers,     *)
(* object URLs) are modelled beside it, because the claims are about what   *)
(* is held and what is released.  Every handler of the component is one    *)
(* action; the asynchronous events of the browser (permission answer,      *)
(* dataavailable, the task that delivers the recorder's stop event, the    *)
(* video track's ended event, the interval tick) are actions of their own. *)
(*                                                                         *)
(* The CreateTicket page (src/TicketingApp/src/pages/CreateTicket.tsx),    *)
(* which hosts the recorder, is a second state machine over its own        *)
(* variables.  The seam between the two is the onRecordingComplete prop:   *)
(* the recorder's machine records each call in `delivered`, the page's     *)
(* machine takes the calls as inputs of handleRecordingComplete.  Where a  *)
(* property is about both at once the recorder runs on the page: saving    *)
(* attaches the file, and the page's tab timer unmounts the recorder.      *)
(*                                                                         *)
(* The AgentDashboard component (same file, from line 656) is a third      *)
(* state machine: its lists and counters, the backend's tickets, and the   *)
(* calls in flight, each with the lists of the render that started it.     *)
(***************************************************************************)
EXTENDS Integers, Sequences, FiniteSets

\* ------------------------------------------------------------------ bounds
MaxSessions == 2    \* start commands accepted in one behaviour
MaxSegs == 1        \* periodic (timeslice) segments per recorder, besides the final flush
MaxSize == 1        \* largest segment size, in bytes
MaxTicks == 1       \* ticks of the elapsed-time counter that are followed
MaxLiveSessions == 1 \* start commands accepted in the behaviours checked for liveness
MaxFiles == 2       \* File objects created on the ticket page in one behaviour
MaxPosts == 2       \* POST /api/tickets requests sent in one behaviour
MaxAttachPosts == 1 \* the same, in the behaviours that follow the attachments
MaxTickets == 2     \* tickets the backend stores
MaxCalls == 3       \* runs of fetchTickets, handleAssignTicket and handleMarkResolved
                    \* in one behaviour

Ids == 1..MaxSessions
NoStream == 0       \* stream === null
NoRec == 0          \* mediaRecorder === null
NoTimer == 0        \* timerRef.current === null
NoUrl == 0          \* recordingPreview === null
NoCall == <<>>      \* no call of onRecordingComplete
NoIndex == -1       \* no call of removeFile

VARIABLES
    \* React state of ScreenRecorder
    isRecording, recordingTime, mediaRecorder, recordedChunks, recordingPreview,
    showPreview, recordingName, stream, isLoading, error, recordingSize,
    \* refs, closures and the component's own life
    timerRef,         \* timerRef.current
    effStream,        \* the `stream` the installed effect cleanup closes over
    mounted,          \* the component is mounted
    modalFading,      \* the preview modal is hidden but still on screen (fade-out)
    pendingRequest,   \* id of the getDisplayMedia request in flight, or 0
    nStarts,          \* start commands accepted so far
    \* browser objects
    tracks,           \* stream id -> readyState of its tracks: "none" | "live" | "ended"
    recorders,        \* recorder id -> its state, its `chunks` array, ...
    timers,           \* ids of the armed interval timers
    urlCreated,       \* object URL id -> created
    urlRevoked,       \* object URL id -> number of revokeObjectURL calls
    \* history
    delivered,        \* the call of onRecordingComplete made by the last step, or NoCall
    nCalls,           \* session -> calls of onRecordingComplete made for it so far
    discarded,        \* sessions on which discardRecording released the preview
    lastOp,           \* the handler or event that ran last (for a rejected capture
                      \* request: the name of the error)
    \* React state of CreateTicket
    formData, selectedCategory, selectedFiles, uploadProgress, isSubmitting,
    ticketError,      \* the page's `error` state
    success, activeTab, recordedVideos,
    \* the page's surroundings
    isAuthenticated,  \* useAuth(): a session with a token exists
    page,             \* the route shown: "create" | "login" | "home"
    nFiles,           \* File objects created so far
    posted,           \* the POST /api/tickets requests sent so far, oldest first
    inFlight,         \* POST requests waiting for their response
    tabTimers,        \* pending setTimeout(() => setActiveTab('form'), 2000) callbacks,
                      \* oldest first; history: each is the number of start commands
                      \* the recorder had accepted when the callback was set
    navTimer,         \* pending setTimeout(() => navigate('/client/home'), 3000) callbacks
    picked,           \* the files of the selection the last step handled, else <<>>
    removedAt,        \* the index the last step passed to removeFile, else NoIndex
    hostOp,           \* "submit" after handleSubmit ran to its await or return, the
                      \* outcome after the POST settled, "other" after any other step
    \* React state of AgentDashboard
    assignedTickets, availableTickets, stats,
    dashLoading,      \* the dashboard's `isLoading` state
    dashError,        \* the dashboard's `error` state
    \* the dashboard's surroundings
    token,            \* useAuth(): the agent's token (and user) exist
    route,            \* the route shown to the agent: "dashboard" | "login"
    backend,          \* the tickets the remote API stores, oldest first
    requests,         \* the calls of the remote API that wait for their answer to be
                      \* handled, each with what its handler closed over
    nRequests,        \* runs of the dashboard's three async handlers started so far
    dashOp            \* what the last step of the dashboard did

reactVars == <<isRecording, recordingTime, mediaRecorder, recordedChunks, recordingPreview,
               showPreview, recordingName, stream, isLoading, error, recordingSize>>
compVars == <<timerRef, effStream, mounted, modalFading, pendingRequest, nStarts>>
browserVars == <<tracks, recorders, timers, urlCreated, urlRevoked>>
histVars == <<delivered, nCalls, discarded, lastOp>>
recorderVars == <<reactVars, compVars, browserVars, histVars>>
hostVars == <<formData, selectedCategory, selectedFiles, uploadProgress, isSubmitting,
              ticketError, success, activeTab, recordedVideos,
              isAuthenticated, page, nFiles, posted, inFlight, tabTimers, navTimer,
              picked, removedAt, hostOp>>
dashVars == <<assignedTickets, availableTickets, stats, dashLoading, dashError,
              token, route, backend, requests, nRequests, dashOp>>
vars == <<recorderVars, hostVars, dashVars>>

\* ------------------------------------------------------------------ names and messages
DefaultName == "screen-recording-<ticket>-<y>-<m>-<d>.webm"
FallbackName == "screen-recording-<ticket>-<now>.webm"
CustomName == "custom.webm"
ErrDenied == "Screen sharing permission was denied"
ErrNotFound == "No screen sharing source available"
ErrFailed == "Failed to start screen recording"
ErrRecording == "An error occurred during recording"

\* ------------------------------------------------------------------ blobs
\* A segment is the Blob of one dataavailable event: the n-th of recorder rec, of size bytes.
Segment(rec, n, size) == [rec |-> rec, n |-> n, size |-> size]

\* The bytes of a segment, each one told apart from every other byte.
Bytes(seg) == [j \in 1..seg.size |-> <<seg.rec, seg.n, j>>]

\* new Blob(parts): the bytes of the parts, in order.
RECURSIVE Blob(_)
Blob(parts) == IF parts = <<>> THEN <<>> ELSE Bytes(Head(parts)) \o Blob(Tail(parts))

RECURSIVE SumSizes(_)
SumSizes(parts) == IF parts = <<>> THEN 0 ELSE Head(parts).size + SumSizes(Tail(parts))

\* ------------------------------------------------------------------ pieces of the handlers
\* (mutant) the segment is put in front of the earlier ones.
PushChunk_Prepend(chunks, seg) == IF seg.size > 0 THEN <<seg>> \o chunks ELSE chunks

\* recorder.ondataavailable: a segment is kept only when it is not empty.
PushChunk(chunks, seg) == IF seg.size > 0 THEN Append(chunks, seg) ELSE chunks

\* setRecordingSize(prev => prev + event.data.size), under the same condition.
SizeAfter(prev, seg) == IF seg.size > 0 THEN prev + seg.size ELSE prev

\* (mutant) saveRecording without its early return.
SaveAccepted_Always == TRUE

\* saveRecording's early return: nothing is saved when no segment is stored.
SaveAccepted == recordedChunks # <<>>

\* (mutant) the edits of the name field are ignored.
FileName_Default == DefaultName

\* (mutant) the name field is passed on even when it is empty.
FileName_NoFallback == recordingName

\* saveRecording's file name: the name field, or a time-stamped name when it is empty.
FileName == IF recordingName # "" THEN recordingName ELSE FallbackName

\* The condition under which stopRecording acts.
StopGuard == mediaRecorder # NoRec /\ recorders[mediaRecorder].state = "recording"

\* (mutant) the onended handler without its check of the recorder's state.
RevokeGuard_Always(k) == TRUE

\* The condition under which the video track's onended handler acts on recorder k.
RevokeGuard(k) == recorders[k].state = "recording"

\* stream.getTracks().forEach(track => track.stop()): a live track is ended.
StopTracks(tr, s) ==
    IF s # NoStream /\ tr[s] = "live" THEN [tr EXCEPT ![s] = "ended"] ELSE tr

\* (mutant) a stop() that queues no task.
RecorderStop_NoTask(rcs, k) ==
    [rcs EXCEPT ![k].state = "inactive", ![k].stops = @ + 1]

\* recorder.stop(): the recorder is inactive at once; the task that delivers the
\* final dataavailable and the stop event is queued.  A call on a recorder that is
\* not recording queues nothing (the browser rejects it); it is counted.
RecorderStop(rcs, k) ==
    IF rcs[k].state = "recording"
    THEN [rcs EXCEPT ![k].state = "inactive", ![k].stopPending = TRUE, ![k].stops = @ + 1]
    ELSE [rcs EXCEPT ![k].stops = @ + 1, ![k].badStops = @ + 1]

\* A recorder whose stream loses its last live track stops by itself, and its stop
\* task is queued as for stop().
AutoStop(rcs, tr, s) ==
    IF s # NoStream /\ tr[s] = "live" /\ rcs[s].state = "recording"
    THEN [rcs EXCEPT ![s].state = "inactive", ![s].stopPending = TRUE]
    ELSE rcs

\* The effect cleanup, first half: clearInterval(timerRef.current) when it is set.
CleanupTimers(tms, ref) == IF ref # NoTimer THEN tms \ {ref} ELSE tms

\* (mutant) an effect cleanup that leaves the tracks alone.
CleanupTracks_Skip(tr, s) == tr

\* The effect cleanup, second half: the tracks of the stream it closes over are stopped.
CleanupTracks(tr, s) == StopTracks(tr, s)

\* The task a recorder queued when it stopped is already in the event loop when a
\* capture request made after the stop is still waiting for the user's answer in the
\* browser's picker: the answer is delivered after that task.
StopTasksDelivered == \A j \in Ids : ~recorders[j].stopPending

\* The session status of the specification, read off the component's flags.
status ==
    IF ~mounted THEN "torn_down"
    ELSE IF isLoading THEN "requesting"
    ELSE IF showPreview THEN "previewing"
    ELSE IF isRecording THEN "recording"
    ELSE IF \E k \in Ids : recorders[k].stopPending THEN "stopped"
    ELSE "idle"

\* ------------------------------------------------------------------ initial state
NewRecorder == [state |-> "none", chunks |-> <<>>, emitted |-> <<>>,
                stopPending |-> FALSE, stops |-> 0, badStops |-> 0]

\* The component as first rendered, and a browser that holds nothing.
RecorderInit ==
    /\ isRecording = FALSE
    /\ recordingTime = 0
    /\ mediaRecorder = NoRec
    /\ recordedChunks = <<>>
    /\ recordingPreview = NoUrl
    /\ showPreview = FALSE
    /\ recordingName = ""
    /\ stream = NoStream
    /\ isLoading = FALSE
    /\ error = ""
    /\ recordingSize = 0
    /\ timerRef = NoTimer
    /\ effStream = NoStream
    /\ mounted = TRUE
    /\ modalFading = FALSE
    /\ pendingRequest = 0
    /\ nStarts = 0
    /\ tracks = [k \in Ids |-> "none"]
    /\ recorders = [k \in Ids |-> NewRecorder]
    /\ timers = {}
    /\ urlCreated = [k \in Ids |-> FALSE]
    /\ urlRevoked = [k \in Ids |-> 0]
    /\ delivered = NoCall
    /\ nCalls = [k \in 0..MaxSessions |-> 0]
    /\ discarded = {}
    /\ lastOp = "init"

\* The ticket page's state as first rendered, but for the tab that is open, while
\* the router shows the given location.
PageAt(location, tab) ==
    /\ formData = [subject |-> <<>>, description |-> <<>>, priority |-> "medium",
                   module |-> "", category |-> ""]
    /\ selectedCategory = ""
    /\ selectedFiles = <<>>
    /\ uploadProgress = 0
    /\ isSubmitting = FALSE
    /\ ticketError = ""
    /\ success = ""
    /\ activeTab = tab
    /\ recordedVideos = <<>>
    /\ isAuthenticated = TRUE
    /\ page = location
    /\ nFiles = 0
    /\ posted = <<>>
    /\ inFlight = 0
    /\ tabTimers = <<>>
    /\ navTimer = 0
    /\ picked = <<>>
    /\ removedAt = NoIndex
    /\ hostOp = "init"

\* The ticket page as first rendered, but for the tab that is open.
PageInit(tab) == PageAt("create", tab)

\* The dashboard as first rendered (its effect has not run yet), a signed-in agent,
\* and a backend without tickets.
DashInit ==
    /\ assignedTickets = <<>>
    /\ availableTickets = <<>>
    /\ stats = [myTickets |-> 0, inProgress |-> 0, resolved |-> 0, available |-> 0]
    /\ dashLoading = TRUE
    /\ dashError = ""
    /\ token = TRUE
    /\ route = "dashboard"
    /\ backend = <<>>
    /\ requests = {}
    /\ nRequests = 0
    /\ dashOp = [op |-> "init", outcome |-> ""]

Init == RecorderInit /\ PageInit("form") /\ DashInit

\* ------------------------------------------------------------------ startRecording
\* The Start Recording button: rendered while not recording, disabled while loading,
\* and behind the preview modal while that is on screen.
StartClick ==
    /\ mounted /\ ~isRecording /\ ~isLoading /\ ~showPreview /\ ~modalFading
    /\ nStarts < MaxSessions
    /\ isLoading' = TRUE
    /\ error' = ""
    /\ nStarts' = nStarts + 1
    /\ pendingRequest' = nStarts + 1
    /\ lastOp' = "start" /\ delivered' = NoCall
    /\ UNCHANGED <<hostVars, dashVars>>
    /\ UNCHANGED <<isRecording, recordingTime, mediaRecorder, recordedChunks,
                   recordingPreview, showPreview, recordingName, stream, recordingSize,
                   timerRef, effStream, mounted, modalFading,
                   browserVars, nCalls, discarded>>

\* getDisplayMedia resolves and the rest of startRecording runs to its end.  The
\* stream changed, so the cleanup of the installed effect runs: before the timer is
\* armed when each update made after the await renders at once, after it when the
\* root batches those updates into one render (which of the two depends on the React
\* root the application is built with; the sources do not say).
Grant(batched) ==
    /\ pendingRequest # 0
    /\ StopTasksDelivered
    /\ LET k == pendingRequest
           tr0 == [tracks EXCEPT ![k] = "live"]
           rc0 == [recorders EXCEPT ![k].state = "recording"]
       IN  /\ pendingRequest' = 0
           /\ lastOp' = "grant" /\ delivered' = NoCall
           /\ UNCHANGED <<hostVars, dashVars>>
           /\ timerRef' = k
           /\ IF mounted
              THEN /\ stream' = k
                   /\ mediaRecorder' = k
                   /\ isRecording' = TRUE
                   /\ recordingTime' = 0
                   /\ recordedChunks' = <<>>
                   /\ recordingSize' = 0
                   /\ isLoading' = FALSE
                   /\ effStream' = k
                   /\ tracks' = CleanupTracks(tr0, effStream)
                   /\ recorders' = AutoStop(rc0, tracks, effStream)
                   /\ timers' = IF batched
                                THEN CleanupTimers(timers \cup {k}, k)
                                ELSE CleanupTimers(timers, timerRef) \cup {k}
              ELSE /\ tracks' = tr0
                   /\ recorders' = rc0
                   /\ timers' = timers \cup {k}
                   /\ UNCHANGED <<stream, mediaRecorder, isRecording, recordingTime,
                                  recordedChunks, recordingSize, isLoading, effStream>>
    /\ UNCHANGED <<recordingPreview, showPreview, recordingName, error, mounted,
                   modalFading, nStarts, urlCreated, urlRevoked, nCalls, discarded>>

\* getDisplayMedia resolves, and new MediaRecorder(...) throws (the mime type is not
\* supported): setStream has run, nothing after it has, and the catch block reports.
GrantFail ==
    /\ pendingRequest # 0
    /\ StopTasksDelivered
    /\ LET k == pendingRequest
           tr0 == [tracks EXCEPT ![k] = "live"]
       IN  /\ pendingRequest' = 0
           /\ lastOp' = "grantfail" /\ delivered' = NoCall
           /\ UNCHANGED <<hostVars, dashVars>>
           /\ IF mounted
              THEN /\ stream' = k
                   /\ effStream' = k
                   /\ error' = ErrFailed
                   /\ isLoading' = FALSE
                   /\ tracks' = CleanupTracks(tr0, effStream)
                   /\ recorders' = AutoStop(recorders, tracks, effStream)
                   /\ timers' = CleanupTimers(timers, timerRef)
              ELSE /\ tracks' = tr0
                   /\ UNCHANGED <<stream, effStream, error, isLoading, recorders, timers>>
    /\ UNCHANGED <<isRecording, recordingTime, mediaRecorder, recordedChunks,
                   recordingPreview, showPreview, recordingName, recordingSize, timerRef,
                   mounted, modalFading, nStarts, urlCreated, urlRevoked,
                   nCalls, discarded>>

\* The names of the errors getDisplayMedia rejects with: the two the catch block
\* tells apart, and one of the others.
ErrNames == {"NotAllowedError", "NotFoundError", "AbortError"}

\* The catch block of startRecording: the message chosen from err.name.
ErrorMessage(errName) ==
    IF errName = "NotAllowedError" THEN ErrDenied
    ELSE IF errName = "NotFoundError" THEN ErrNotFound
    ELSE ErrFailed

\* getDisplayMedia rejects with an error of the given name: the catch block
\* classifies the error, finally ends loading.
Deny(errName) ==
    /\ pendingRequest # 0
    /\ StopTasksDelivered
    /\ pendingRequest' = 0
    /\ lastOp' = errName /\ delivered' = NoCall
    /\ UNCHANGED <<hostVars, dashVars>>
    /\ IF mounted
       THEN error' = ErrorMessage(errName) /\ isLoading' = FALSE
       ELSE UNCHANGED <<error, isLoading>>
    /\ UNCHANGED <<isRecording, recordingTime, mediaRecorder, recordedChunks,
                   recordingPreview, showPreview, recordingName, stream, recordingSize,
                   timerRef, effStream, mounted, modalFading, nStarts,
                   browserVars, nCalls, discarded>>

\* ------------------------------------------------------------------ the recorder's events
\* recorder.ondataavailable for a timeslice segment of the given size.
DataAvailable(k, size) ==
    /\ recorders[k].state = "recording"
    /\ Len(recorders[k].emitted) < MaxSegs
    /\ LET seg == Segment(k, Len(recorders[k].emitted) + 1, size)
       IN  /\ recorders' = [recorders EXCEPT ![k].emitted = Append(@, seg),
                                             ![k].chunks = PushChunk(@, seg)]
           /\ recordingSize' = IF mounted THEN SizeAfter(recordingSize, seg)
                               ELSE recordingSize
    /\ lastOp' = "data" /\ delivered' = NoCall
    /\ UNCHANGED <<hostVars, dashVars>>
    /\ UNCHANGED <<isRecording, recordingTime, mediaRecorder, recordedChunks,
                   recordingPreview, showPreview, recordingName, stream, isLoading, error,
                   compVars, tracks, timers, urlCreated, urlRevoked, nCalls, discarded>>

\* The final dataavailable (of the given size) followed by recorder.onstop, for a
\* recorder record rc with id k: the new values of the state that both touch.  The
\* chunks array is handed to the component (setRecordedChunks(chunks)); the recorder
\* never touches it again.
FlushAndOnStop(k, rc, size) ==
    LET seg == Segment(k, Len(rc.emitted) + 1, size)
        chunks == PushChunk(rc.chunks, seg)
    IN  /\ recorders' = [recorders EXCEPT
                ![k] = [rc EXCEPT !.emitted = IF mounted THEN Append(@, seg) ELSE <<>>,
                                  !.chunks = <<>>,
                                  !.stopPending = FALSE]]
        /\ urlCreated' = [urlCreated EXCEPT ![k] = TRUE]
        /\ IF mounted
           THEN /\ recordingSize' = SizeAfter(recordingSize, seg)
                /\ recordedChunks' = chunks
                /\ recordingPreview' = k
                /\ recordingName' = DefaultName
                /\ showPreview' = TRUE
                /\ modalFading' = FALSE
           ELSE UNCHANGED <<recordingSize, recordedChunks, recordingPreview,
                            recordingName, showPreview, modalFading>>

\* The task queued by the recorder's stop: the buffered data is delivered, then
\* onstop assembles the blob, creates the preview URL and opens the preview.
StopTask(k, size) ==
    /\ recorders[k].stopPending
    /\ FlushAndOnStop(k, recorders[k], size)
    /\ lastOp' = "onstop" /\ delivered' = NoCall
    /\ UNCHANGED <<hostVars, dashVars>>
    /\ UNCHANGED <<isRecording, recordingTime, mediaRecorder, stream, isLoading, error,
                   timerRef, effStream, mounted, pendingRequest, nStarts,
                   tracks, timers, urlRevoked, nCalls, discarded>>

\* The recording pipe fails: the recorder becomes inactive, onerror reports, and the
\* same task delivers the buffered data and the stop event.
RecorderError(k, size) ==
    /\ recorders[k].state = "recording"
    /\ FlushAndOnStop(k, [recorders[k] EXCEPT !.state = "inactive"], size)
    /\ error' = IF mounted THEN ErrRecording ELSE error
    /\ lastOp' = "error" /\ delivered' = NoCall
    /\ UNCHANGED <<hostVars, dashVars>>
    /\ UNCHANGED <<isRecording, recordingTime, mediaRecorder, stream, isLoading,
                   timerRef, effStream, mounted, pendingRequest, nStarts,
                   tracks, timers, urlRevoked, nCalls, discarded>>

\* The interval callback: setRecordingTime(prev => prev + 1).
Tick(t) ==
    /\ t \in timers
    /\ mounted
    /\ recordingTime < MaxTicks
    /\ recordingTime' = recordingTime + 1
    /\ lastOp' = "tick" /\ delivered' = NoCall
    /\ UNCHANGED <<hostVars, dashVars>>
    /\ UNCHANGED <<isRecording, mediaRecorder, recordedChunks, recordingPreview,
                   showPreview, recordingName, stream, isLoading, error, recordingSize,
                   compVars, browserVars, nCalls, discarded>>

\* ------------------------------------------------------------------ stopping
\* The Stop Recording button (rendered while isRecording) runs stopRecording.
StopClick ==
    /\ mounted /\ isRecording /\ ~showPreview /\ ~modalFading
    /\ lastOp' = "stop" /\ delivered' = NoCall
    /\ UNCHANGED <<hostVars, dashVars>>
    /\ IF StopGuard
       THEN /\ recorders' = RecorderStop(recorders, mediaRecorder)
            /\ isRecording' = FALSE
            /\ timers' = CleanupTimers(timers, timerRef)
            /\ timerRef' = NoTimer
            \* the tracks are stopped, and again by the effect cleanup that runs
            \* because setStream(null) changed the stream
            /\ tracks' = CleanupTracks(StopTracks(tracks, stream),
                                       IF stream # NoStream THEN effStream ELSE NoStream)
            /\ stream' = NoStream
            /\ effStream' = IF stream # NoStream THEN NoStream ELSE effStream
       ELSE UNCHANGED <<recorders, isRecording, timers, timerRef, tracks, stream,
                        effStream>>
    /\ UNCHANGED <<recordingTime, mediaRecorder, recordedChunks, recordingPreview,
                   showPreview, recordingName, isLoading, error, recordingSize,
                   mounted, modalFading, pendingRequest, nStarts,
                   urlCreated, urlRevoked, nCalls, discarded>>

\* The user ends the sharing with the browser's own control: the video track of
\* stream k ends and its onended handler runs.
ExternalRevoke(k) ==
    /\ tracks[k] = "live"
    /\ recorders[k].state # "none"
    /\ tracks' = [tracks EXCEPT ![k] = "ended"]
    /\ lastOp' = "revoke" /\ delivered' = NoCall
    /\ UNCHANGED <<hostVars, dashVars>>
    /\ IF RevokeGuard(k)
       THEN /\ recorders' = RecorderStop(recorders, k)
            /\ isRecording' = IF mounted THEN FALSE ELSE isRecording
            /\ timers' = CleanupTimers(timers, timerRef)
       ELSE UNCHANGED <<recorders, isRecording, timers>>
    /\ UNCHANGED <<recordingTime, mediaRecorder, recordedChunks, recordingPreview,
                   showPreview, recordingName, stream, isLoading, error, recordingSize,
                   compVars, urlCreated, urlRevoked, nCalls, discarded>>

\* ------------------------------------------------------------------ the preview modal
\* History: the segments recorder k emitted are remembered while its recording is
\* stored in the component, and forgotten when the session's state is cleared.
ForgetSession(rcs, k) == IF k # NoUrl THEN [rcs EXCEPT ![k].emitted = <<>>] ELSE rcs

\* (mutant) the preview URL is not revoked.
RevokePreview_Skip == urlRevoked

\* URL.revokeObjectURL(recordingPreview), when a preview URL is set.
RevokePreview ==
    IF recordingPreview # NoUrl
    THEN [urlRevoked EXCEPT ![recordingPreview] = @ + 1]
    ELSE urlRevoked

\* Save & Attach to Ticket runs saveRecording, as far as the component and the
\* browser go.  The button is on screen while the modal is shown and while it fades
\* out after being hidden.
SaveRecording ==
    /\ mounted /\ (showPreview \/ modalFading)
    /\ lastOp' = "save"
    /\ IF SaveAccepted
       THEN /\ delivered' = [blob |-> Blob(recordedChunks), fileName |-> FileName,
                             session |-> recordingPreview]
            /\ nCalls' = [nCalls EXCEPT ![recordingPreview] = @ + 1]
            /\ urlRevoked' = RevokePreview
            /\ recorders' = ForgetSession(recorders, recordingPreview)
            /\ showPreview' = FALSE
            /\ modalFading' = TRUE
            /\ recordedChunks' = <<>>
            /\ recordingPreview' = NoUrl
            /\ recordingName' = ""
            /\ recordingSize' = 0
       ELSE /\ delivered' = NoCall
            /\ UNCHANGED <<nCalls, urlRevoked, recorders, showPreview, modalFading,
                           recordedChunks, recordingPreview, recordingName, recordingSize>>
    /\ UNCHANGED <<isRecording, recordingTime, mediaRecorder, stream, isLoading, error,
                   timerRef, effStream, mounted, pendingRequest, nStarts,
                   tracks, timers, urlCreated, discarded>>

\* saveRecording under a host whose onRecordingComplete is only recorded.
SaveClick == SaveRecording /\ UNCHANGED <<hostVars, dashVars>>

\* Discard, the modal's close button and its onHide run discardRecording.  When a
\* stream is held its tracks are stopped and setStream(null) makes the effect
\* cleanup run.
DiscardClick ==
    /\ mounted /\ (showPreview \/ modalFading)
    /\ lastOp' = "discard" /\ delivered' = NoCall
    /\ UNCHANGED <<hostVars, dashVars>>
    /\ urlRevoked' = RevokePreview
    /\ discarded' = IF recordingPreview # NoUrl THEN discarded \cup {recordingPreview}
                    ELSE discarded
    /\ showPreview' = FALSE
    /\ modalFading' = TRUE
    /\ recordedChunks' = <<>>
    /\ recordingPreview' = NoUrl
    /\ recordingName' = ""
    /\ recordingSize' = 0
    /\ IF stream # NoStream
       THEN /\ tracks' = CleanupTracks(StopTracks(tracks, stream), effStream)
            /\ recorders' = AutoStop(AutoStop(ForgetSession(recorders, recordingPreview),
                                              tracks, stream), tracks, effStream)
            /\ timers' = CleanupTimers(timers, timerRef)
            /\ stream' = NoStream
            /\ effStream' = NoStream
       ELSE /\ recorders' = ForgetSession(recorders, recordingPreview)
            /\ UNCHANGED <<tracks, timers, stream, effStream>>
    /\ UNCHANGED <<isRecording, recordingTime, mediaRecorder, isLoading, error,
                   timerRef, mounted, pendingRequest, nStarts,
                   urlCreated, nCalls>>

\* The Recording Name field, rendered while a preview URL is set.
NameEdit(name) ==
    /\ mounted /\ showPreview /\ recordingPreview # NoUrl
    /\ name # recordingName
    /\ recordingName' = name
    /\ lastOp' = "edit" /\ delivered' = NoCall
    /\ UNCHANGED <<hostVars, dashVars>>
    /\ UNCHANGED <<isRecording, recordingTime, mediaRecorder, recordedChunks,
                   recordingPreview, showPreview, stream, isLoading, error, recordingSize,
                   compVars, browserVars, nCalls, discarded>>

\* The hidden modal has finished fading out and leaves the screen.
ModalExited ==
    /\ mounted /\ modalFading
    /\ modalFading' = FALSE
    /\ lastOp' = "exited" /\ delivered' = NoCall
    /\ UNCHANGED <<hostVars, dashVars>>
    /\ UNCHANGED <<reactVars, timerRef, effStream, mounted, pendingRequest,
                   nStarts, browserVars, nCalls, discarded>>

\* ------------------------------------------------------------------ teardown
\* The component is unmounted: the cleanup of the installed effect runs, and the
\* component's state is gone with it (the ref object lives on in the closures of
\* the callbacks that are still registered with the browser).
Teardown ==
    /\ mounted
    /\ mounted' = FALSE
    /\ modalFading' = FALSE
    /\ timers' = CleanupTimers(timers, timerRef)
    /\ tracks' = CleanupTracks(tracks, effStream)
    /\ recorders' = AutoStop([k \in Ids |-> IF recorders[k].state = "inactive"
                                                  /\ ~recorders[k].stopPending
                                              THEN [recorders[k] EXCEPT !.emitted = <<>>]
                                              ELSE recorders[k]],
                             tracks, effStream)
    /\ isRecording' = FALSE
    /\ recordingTime' = 0
    /\ mediaRecorder' = NoRec
    /\ recordedChunks' = <<>>
    /\ recordingPreview' = NoUrl
    /\ showPreview' = FALSE
    /\ recordingName' = ""
    /\ stream' = NoStream
    /\ isLoading' = FALSE
    /\ error' = ""
    /\ recordingSize' = 0
    /\ effStream' = NoStream
    /\ lastOp' = "unmount" /\ delivered' = NoCall
    /\ UNCHANGED <<timerRef, pendingRequest, nStarts,
                   urlCreated, urlRevoked, nCalls, discarded>>

\* The host takes the component off the screen, for whatever reason.
Unmount == Teardown /\ UNCHANGED <<hostVars, dashVars>>

\* ------------------------------------------------------------------ specification
Sizes == 0..MaxSize

\* The steps of a started session up to its preview, and what the user does with the
\* preview short of saving it.
Capturing ==
    \/ \E batched \in BOOLEAN : Grant(batched)
    \/ GrantFail
    \/ \E errName \in ErrNames : Deny(errName)
    \/ \E k \in Ids, size \in Sizes : DataAvailable(k, size)
    \/ \E k \in Ids, size \in Sizes : StopTask(k, size)
    \/ \E k \in Ids, size \in Sizes : RecorderError(k, size)
    \/ \E t \in Ids : Tick(t)
    \/ StopClick
    \/ \E k \in Ids : ExternalRevoke(k)
    \/ DiscardClick
    \/ \E name \in {"", CustomName} : NameEdit(name)
    \/ ModalExited

\* Every step of the recorder but the start command.
Running == Capturing \/ SaveClick \/ Unmount

Next == StartClick \/ Running

Spec == Init /\ [][Next]_vars

\* The event loop runs every task it has queued: the task of a stopped recorder is
\* delivered, and the hide transition of the modal comes to its end.
LiveSpec ==
    /\ Init
    /\ [][(StartClick /\ nStarts < MaxLiveSessions) \/ Running]_vars
    /\ WF_vars(\E k \in Ids, size \in Sizes : StopTask(k, size))
    /\ WF_vars(ModalExited)

\* The same, with a user who dismisses a preview that stays open.
RecoverSpec == LiveSpec /\ WF_vars(DiscardClick)

\* ================================================================== the ticket page
\* ------------------------------------------------------------------ files
\* The per-file ceiling of handleFileChange, in bytes.
MaxFileSize == 100 * 1024 * 1024

\* The sizes of the files the user picks: at the ceiling and one byte over it.
PickSizes == {MaxFileSize, MaxFileSize + 1}

\* The sizes of the payloads the recorder hands over.
PayloadSizes == {1, MaxFileSize + 1}

\* A File object: `id` is its identity, `recorded` tells whether the recorder's
\* callback created it (history: the page keeps no such field).
NewFile(id, size, recorded) == [id |-> id, size |-> size, recorded |-> recorded]

\* The selections of n files: the sizes of the files, in the order of the file list.
Selections(n) == [1..n -> PickSizes]

\* (mutant) a filter that stops at the first file over the ceiling.
RECURSIVE ValidFiles_StopAtTooLarge(_)
ValidFiles_StopAtTooLarge(files) ==
    IF files = <<>> \/ Head(files).size > MaxFileSize THEN <<>>
    ELSE <<Head(files)>> \o ValidFiles_StopAtTooLarge(Tail(files))

\* filesArray.filter(file => file.size <= 100 * 1024 * 1024), as the callback decides.
RECURSIVE ValidFiles(_)
ValidFiles(files) ==
    IF files = <<>> THEN <<>>
    ELSE (IF Head(files).size > MaxFileSize THEN <<>> ELSE <<Head(files)>>)
         \o ValidFiles(Tail(files))

\* (mutant) a removal that drops the last element whatever the index.
FilterOutIndex_Last(list, fileIndex) ==
    IF list = <<>> THEN <<>> ELSE SubSeq(list, 1, Len(list) - 1)

\* prev.filter((_, i) => i !== fileIndex), with the 0-based index of the code.
RECURSIVE FilterOutIndex(_, _)
FilterOutIndex(list, fileIndex) ==
    IF list = <<>> THEN <<>>
    ELSE (IF fileIndex = 0 THEN <<>> ELSE <<Head(list)>>)
         \o (IF fileIndex = 0 THEN Tail(list) ELSE FilterOutIndex(Tail(list), fileIndex - 1))

\* recordedVideos.includes(file): the Recording badge of an attachment.
Includes(list, file) == \E i \in DOMAIN list : list[i].id = file.id

\* ------------------------------------------------------------------ messages
ErrTooLarge == "File <name> is too large (max 100MB)"
ErrSubject == "Please enter a subject for your ticket"
ErrDescription == "Please describe the issue or request"
ErrCategory == "Please select a category for your ticket"
ErrModule == "Please select the module where the issue occurs"
ErrLogin == "You must be logged in to create a ticket"
ErrSession == "Session expired. Please login again."
ErrServer == "<err.response.data.message>"
ErrCreate == "Failed to create ticket. Please try again."
MsgRecorded == "Screen recording <fileName> has been saved and will be attached to your ticket."
MsgCreated == "Ticket <ticketNumber> created successfully! Redirecting to dashboard..."

\* ------------------------------------------------------------------ the form's fields
\* Texts the user types, as sequences of characters.
Texts == {<<>>, <<" ">>, <<"a">>}

\* String.prototype.trim(): the text without its leading and trailing white space.
RECURSIVE TrimStart(_)
TrimStart(s) == IF s # <<>> /\ Head(s) = " " THEN TrimStart(Tail(s)) ELSE s

RECURSIVE TrimEnd(_)
TrimEnd(s) ==
    IF s # <<>> /\ s[Len(s)] = " " THEN TrimEnd(SubSeq(s, 1, Len(s) - 1)) ELSE s

Trim(s) == TrimEnd(TrimStart(s))

\* The values of the module select and of the category cards that are followed.
Modules == {"", "api"}
Categories == {"bug"}

\* The page is shown and the form tab is open: the form's controls are on screen.
FormShown == page = "create" /\ activeTab = "form"

\* The page is shown with the recorder tab open: ScreenRecorder is mounted.
RecorderShown == page = "create" /\ activeTab = "recorder"

\* ------------------------------------------------------------------ the page's handlers
\* A category card is clicked: handleCategorySelect.
HandleCategorySelect(category) ==
    /\ FormShown
    /\ selectedCategory' = category
    /\ formData' = [formData EXCEPT !.category = category]
    /\ hostOp' = "other"
    /\ picked' = <<>>
    /\ removedAt' = NoIndex
    /\ UNCHANGED <<selectedFiles, uploadProgress, isSubmitting, ticketError, success,
                   activeTab, recordedVideos, isAuthenticated, page, nFiles, posted,
                   inFlight, tabTimers, navTimer, recorderVars, dashVars>>

\* A field of the form changes: handleChange, for the subject, the description and
\* the module select.
HandleChange(name, value) ==
    /\ FormShown
    /\ formData[name] # value
    /\ formData' = [formData EXCEPT ![name] = value]
    /\ hostOp' = "other"
    /\ picked' = <<>>
    /\ removedAt' = NoIndex
    /\ UNCHANGED <<selectedCategory, selectedFiles, uploadProgress, isSubmitting,
                   ticketError, success, activeTab, recordedVideos, isAuthenticated,
                   page, nFiles, posted, inFlight, tabTimers, navTimer, recorderVars, dashVars>>

\* The user picks files: handleFileChange for a selection of the given sizes.
HandleFileChange(sel) ==
    /\ FormShown
    /\ LET n == Len(sel)
           filesArray == [i \in 1..n |-> NewFile(nFiles + i, sel[i], FALSE)]
       IN  /\ n >= 1
           /\ nFiles + n <= MaxFiles
           /\ nFiles' = nFiles + n
           /\ picked' = filesArray
           /\ removedAt' = NoIndex
           /\ selectedFiles' = selectedFiles \o ValidFiles(filesArray)
           /\ ticketError' = IF \E i \in 1..n : filesArray[i].size > MaxFileSize
                             THEN ErrTooLarge ELSE ticketError
    /\ hostOp' = "other"
    /\ UNCHANGED <<formData, selectedCategory, uploadProgress, isSubmitting, success,
                   activeTab, recordedVideos, isAuthenticated, page, posted, inFlight,
                   tabTimers, navTimer, recorderVars, dashVars>>

\* handleRecordingComplete for a payload of the given size, as far as the page goes.
AttachRecording(size) ==
    /\ RecorderShown
    /\ nFiles < MaxFiles
    /\ LET videoFile == NewFile(nFiles + 1, size, TRUE)
       IN  /\ recordedVideos' = Append(recordedVideos, videoFile)
           /\ selectedFiles' = Append(selectedFiles, videoFile)
    /\ nFiles' = nFiles + 1
    /\ success' = MsgRecorded
    /\ tabTimers' = Append(tabTimers, nStarts)
    /\ hostOp' = "other"
    /\ picked' = <<>>
    /\ removedAt' = NoIndex
    /\ UNCHANGED <<formData, selectedCategory, uploadProgress, isSubmitting, ticketError,
                   activeTab, isAuthenticated, page, posted, inFlight, navTimer>>

\* Some recorder calls onRecordingComplete with a payload of the given size.
HandleRecordingComplete(size) == AttachRecording(size) /\ UNCHANGED <<recorderVars, dashVars>>

\* The two-second timeout of handleRecordingComplete fires: setActiveTab('form').
SwitchToForm ==
    /\ page = "create"
    /\ tabTimers # <<>>
    /\ tabTimers' = Tail(tabTimers)
    /\ activeTab' = "form"
    /\ hostOp' = "other"
    /\ picked' = <<>>
    /\ removedAt' = NoIndex
    /\ UNCHANGED <<formData, selectedCategory, selectedFiles, uploadProgress,
                   isSubmitting, ticketError, success, recordedVideos, isAuthenticated,
                   page, nFiles, posted, inFlight, navTimer>>

\* The timeout fires on a page whose recorder is not followed.
TabTimeout == SwitchToForm /\ UNCHANGED <<recorderVars, dashVars>>

\* Write Ticket / Record Screen: the tab buttons run setActiveTab.
SetActiveTab(tab) ==
    /\ page = "create"
    /\ activeTab # tab
    /\ activeTab' = tab
    /\ hostOp' = "other"
    /\ picked' = <<>>
    /\ removedAt' = NoIndex
    /\ UNCHANGED <<formData, selectedCategory, selectedFiles, uploadProgress,
                   isSubmitting, ticketError, success, recordedVideos, isAuthenticated,
                   page, nFiles, posted, inFlight, tabTimers, navTimer>>

\* A tab button is clicked on a page whose recorder is not followed.
SelectTab(tab) == SetActiveTab(tab) /\ UNCHANGED <<recorderVars, dashVars>>

\* The trash button of the attachment at fileIndex: removeFile.
RemoveFile(fileIndex) ==
    /\ FormShown
    /\ fileIndex < Len(selectedFiles)
    /\ selectedFiles' = FilterOutIndex(selectedFiles, fileIndex)
    /\ recordedVideos' = FilterOutIndex(recordedVideos, fileIndex)
    /\ hostOp' = "other"
    /\ picked' = <<>>
    /\ removedAt' = fileIndex
    /\ UNCHANGED <<formData, selectedCategory, uploadProgress, isSubmitting, ticketError,
                   success, activeTab, isAuthenticated, page, nFiles, posted, inFlight,
                   tabTimers, navTimer, recorderVars, dashVars>>

\* ------------------------------------------------------------------ handleSubmit
\* (mutant) a validation that tests the raw texts.
ValidationError_NoTrim ==
    IF formData.subject = <<>> THEN ErrSubject
    ELSE IF formData.description = <<>> THEN ErrDescription
    ELSE IF selectedCategory = "" THEN ErrCategory
    ELSE IF formData.module = "" THEN ErrModule
    ELSE ""

\* The validation of handleSubmit: the message of the first check that fails, in the
\* order of the code, or "" when all pass.
ValidationError ==
    IF Trim(formData.subject) = <<>> THEN ErrSubject
    ELSE IF Trim(formData.description) = <<>> THEN ErrDescription
    ELSE IF selectedCategory = "" THEN ErrCategory
    ELSE IF formData.module = "" THEN ErrModule
    ELSE ""

\* The multipart body of POST /api/tickets.
FormDataToSend ==
    [Subject |-> formData.subject, Description |-> formData.description,
     Priority |-> formData.priority, Module |-> formData.module,
     Category |-> selectedCategory, Files |-> selectedFiles]

\* (mutant) a submit button that is never disabled.
SubmitEnabled_Always == TRUE

\* The submit button: disabled={isSubmitting}.
SubmitEnabled == ~isSubmitting

\* The form is submitted: handleSubmit up to its await, or to the return of a check
\* that fails.
HandleSubmit ==
    /\ FormShown
    /\ SubmitEnabled
    /\ success' = ""
    /\ uploadProgress' = 0
    /\ hostOp' = "submit"
    /\ picked' = <<>>
    /\ removedAt' = NoIndex
    /\ IF ValidationError # ""
       THEN /\ ticketError' = ValidationError
            /\ isSubmitting' = FALSE
            /\ UNCHANGED <<page, posted, inFlight>>
       ELSE IF ~isAuthenticated
       THEN /\ ticketError' = ErrLogin
            /\ isSubmitting' = FALSE
            /\ page' = "login"
            /\ UNCHANGED <<posted, inFlight>>
       ELSE /\ Len(posted) < MaxPosts
            /\ ticketError' = ""
            /\ isSubmitting' = TRUE
            /\ posted' = Append(posted, FormDataToSend)
            /\ inFlight' = inFlight + 1
            /\ UNCHANGED page
    /\ UNCHANGED <<formData, selectedCategory, selectedFiles, activeTab, recordedVideos,
                   isAuthenticated, nFiles, tabTimers, navTimer, recorderVars, dashVars>>

\* onUploadProgress of the request in flight.
UploadProgress(progress) ==
    /\ page = "create"
    /\ inFlight > 0
    /\ uploadProgress # progress
    /\ uploadProgress' = progress
    /\ hostOp' = "other"
    /\ picked' = <<>>
    /\ removedAt' = NoIndex
    /\ UNCHANGED <<formData, selectedCategory, selectedFiles, isSubmitting, ticketError,
                   success, activeTab, recordedVideos, isAuthenticated, page, nFiles,
                   posted, inFlight, tabTimers, navTimer, recorderVars, dashVars>>

\* The outcomes of the POST: a response with a body, a response without one, a 401,
\* an error response with a message, any other failure.
Outcomes == {"created", "empty", "401", "message", "failed"}

\* The POST settles: the rest of handleSubmit, its catch and its finally.  When the
\* page has been left in the meantime its state setters do nothing; logout, navigate
\* and setTimeout act all the same.
Response(outcome) ==
    /\ inFlight > 0
    /\ inFlight' = inFlight - 1
    /\ hostOp' = outcome
    /\ picked' = <<>>
    /\ removedAt' = NoIndex
    /\ IF page = "create"
       THEN /\ isSubmitting' = FALSE
            /\ success' = IF outcome = "created" THEN MsgCreated ELSE success
            /\ ticketError' = IF outcome = "401" THEN ErrSession
                              ELSE IF outcome = "message" THEN ErrServer
                              ELSE IF outcome = "failed" THEN ErrCreate
                              ELSE ticketError
       ELSE UNCHANGED <<isSubmitting, success, ticketError>>
    /\ navTimer' = IF outcome = "created" THEN navTimer + 1 ELSE navTimer
    /\ isAuthenticated' = IF outcome = "401" THEN FALSE ELSE isAuthenticated
    /\ page' = IF outcome = "401" THEN "login" ELSE page
    /\ UNCHANGED <<formData, selectedCategory, selectedFiles, uploadProgress, activeTab,
                   recordedVideos, nFiles, posted, tabTimers, recorderVars, dashVars>>

\* A three-second timeout set after a ticket was created fires.
NavTimeout ==
    /\ navTimer > 0
    /\ navTimer' = navTimer - 1
    /\ page' = "home"
    /\ hostOp' = "other"
    /\ picked' = <<>>
    /\ removedAt' = NoIndex
    /\ UNCHANGED <<formData, selectedCategory, selectedFiles, uploadProgress,
                   isSubmitting, ticketError, success, activeTab, recordedVideos,
                   isAuthenticated, nFiles, posted, inFlight, tabTimers, recorderVars,
                   dashVars>>

\* The session ends outside the page (useAuth reports no session any more).
SessionEnds ==
    /\ page = "create"
    /\ isAuthenticated
    /\ isAuthenticated' = FALSE
    /\ hostOp' = "other"
    /\ picked' = <<>>
    /\ removedAt' = NoIndex
    /\ UNCHANGED <<formData, selectedCategory, selectedFiles, uploadProgress,
                   isSubmitting, ticketError, success, activeTab, recordedVideos, page,
                   nFiles, posted, inFlight, tabTimers, navTimer, recorderVars, dashVars>>

\* ------------------------------------------------------------------ the page's specifications
\* The user edits the form, typing texts and choosing modules from the given sets.
FormEdits(texts, modules) ==
    \/ \E category \in Categories : HandleCategorySelect(category)
    \/ \E value \in texts : HandleChange("subject", value)
    \/ \E value \in texts : HandleChange("description", value)
    \/ \E value \in modules : HandleChange("module", value)

\* The steps that touch the attachments, and the tabs that lead to them.
FileSteps ==
    \/ \E n \in 1..MaxFiles : \E sel \in Selections(n) : HandleFileChange(sel)
    \/ \E size \in PayloadSizes : HandleRecordingComplete(size)
    \/ TabTimeout
    \/ \E tab \in {"form", "recorder"} : SelectTab(tab)
    \/ \E fileIndex \in 0..(MaxFiles - 1) : RemoveFile(fileIndex)

\* What follows a submission.
AfterSubmit ==
    \/ UploadProgress(100)
    \/ \E outcome \in Outcomes : Response(outcome)
    \/ NavTimeout

\* The page with every way to attach and to remove files, a user who fills the form
\* in with valid values only, and a session that lasts.
AttachNext ==
    \/ FormEdits({<<"a">>}, {"api"})
    \/ FileSteps
    \/ (HandleSubmit /\ Len(posted) < MaxAttachPosts)
    \/ AfterSubmit

AttachSpec == Init /\ [][AttachNext]_vars

\* The page with every way to fill the form in, a session that may end, and a user
\* who attaches no file.
FormNext == FormEdits(Texts, Modules) \/ HandleSubmit \/ AfterSubmit \/ SessionEnds

FormSpec == Init /\ [][FormNext]_vars

\* ================================================================== the agent dashboard
\* AgentDashboard (src/TicketingApp/src/pages/CreateTicket.tsx, from line 656) as a
\* third state machine: its React state, the agent's session, the tickets the remote
\* API stores, and the calls that wait for their answer.  An async handler is two
\* actions: the click (or the poll) up to the await, and the rest when the answer
\* arrives; the second works on what the first closed over.

\* ------------------------------------------------------------------ values
\* Status and priority values are texts (sequences of characters), so that
\* toLowerCase works on them letter by letter.
Open == <<"o", "p", "e", "n">>
InProgress == <<"i", "n", "_", "p", "r", "o", "g", "r", "e", "s", "s">>
Resolved == <<"r", "e", "s", "o", "l", "v", "e", "d">>
Closed == <<"c", "l", "o", "s", "e", "d">>
Pending == <<"p", "e", "n", "d", "i", "n", "g">>
Low == <<"l", "o", "w">>
Medium == <<"m", "e", "d", "i", "u", "m">>
High == <<"h", "i", "g", "h">>
Critical == <<"c", "r", "i", "t", "i", "c", "a", "l">>

UpperCase == <<"A", "B", "C", "D", "E", "F", "G", "H", "I", "J", "K", "L", "M",
               "N", "O", "P", "Q", "R", "S", "T", "U", "V", "W", "X", "Y", "Z">>
LowerCase == <<"a", "b", "c", "d", "e", "f", "g", "h", "i", "j", "k", "l", "m",
               "n", "o", "p", "q", "r", "s", "t", "u", "v", "w", "x", "y", "z">>

\* The lower-case letter of each upper-case letter.
Folded ==
    [c \in {UpperCase[i] : i \in DOMAIN UpperCase} |->
        LowerCase[CHOOSE i \in DOMAIN UpperCase : UpperCase[i] = c]]

\* String.prototype.toLowerCase(): upper-case letters are folded, every other
\* character stays.
LowerChar(c) == IF c \in DOMAIN Folded THEN Folded[c] ELSE c

ToLowerCase(s) == [i \in 1..Len(s) |-> LowerChar(s[i])]

validStatuses == <<Open, InProgress, Resolved, Closed, Pending>>
validPriorities == <<Low, Medium, High, Critical>>

\* validStatuses.includes(x) / validPriorities.includes(x)
ListIncludes(list, x) == \E i \in DOMAIN list : list[i] = x

\* (mutant) a status check that does not fold the case.
IsValidStatus_Exact(st) == ListIncludes(validStatuses, st)

IsValidStatus(st) == ListIncludes(validStatuses, ToLowerCase(st))

IsValidPriority(pr) == ListIncludes(validPriorities, ToLowerCase(pr))

\* The agent who is signed in (user.id), another agent, and no agent.
Me == "agent-me"
Other == "agent-other"
Nobody == ""

\* One element of transformedTickets: the backend's ticket with its status and its
\* priority validated and normalised.
Transform(ticket) ==
    [id |-> ticket.id,
     status |-> IF IsValidStatus(ticket.status) THEN ToLowerCase(ticket.status) ELSE Open,
     priority |-> IF IsValidPriority(ticket.priority) THEN ToLowerCase(ticket.priority)
                  ELSE Medium,
     assignedAgentId |-> ticket.assignedAgentId]

TransformAll(tickets) == [i \in DOMAIN tickets |-> Transform(tickets[i])]

\* agentAssigned and unassigned of fetchTickets.
IsAgentAssigned(t) == t.assignedAgentId = Me /\ t.status # Closed /\ t.status # Resolved
IsUnassigned(t) == t.assignedAgentId = Nobody /\ t.status = Open
IsInProgress(t) == t.status = InProgress
IsMineResolved(t) == t.assignedAgentId = Me /\ t.status = Resolved

AgentAssigned(tickets) == SelectSeq(TransformAll(tickets), IsAgentAssigned)
Unassigned(tickets) == SelectSeq(TransformAll(tickets), IsUnassigned)

\* The statistics fetchTickets derives from a response.
FetchedStats(tickets) ==
    [myTickets |-> Len(AgentAssigned(tickets)),
     inProgress |-> Len(SelectSeq(AgentAssigned(tickets), IsInProgress)),
     resolved |-> Len(SelectSeq(TransformAll(tickets), IsMineResolved)),
     available |-> Len(Unassigned(tickets))]

\* list.find(t => t.id === ticketId): the position of the first such ticket, or 0.
FindIndex(list, ticketId) ==
    IF \E i \in DOMAIN list : list[i].id = ticketId
    THEN CHOOSE i \in DOMAIN list :
            list[i].id = ticketId /\ \A j \in 1..(i - 1) : list[j].id # ticketId
    ELSE 0

\* ------------------------------------------------------------------ messages
ErrAuthLogin == "Authentication required. Please login again."
ErrAuth == "Authentication required"
ErrFormat == "Invalid response format from server"
ErrLoad == "Failed to load tickets. Please try again."

\* ------------------------------------------------------------------ the remote API
\* A ticket as the backend stores it.
BackendTicket(id, st, pr, agent) ==
    [id |-> id, status |-> st, priority |-> pr, assignedAgentId |-> agent]

\* PUT /api/tickets/{id} with the given fields, when the backend accepts it.
BackendUpdate(tickets, ticketId, fields) ==
    [i \in DOMAIN tickets |->
        IF tickets[i].id = ticketId
        THEN [f \in DOMAIN tickets[i] |->
                 IF f \in DOMAIN fields THEN fields[f] ELSE tickets[i][f]]
        ELSE tickets[i]]

\* The answers to GET /api/tickets: the list, a body that is no array, a 401, an
\* error with a message, any other failure.
GetOutcomes == {"ok", "invalid", "401", "message", "failed"}

\* The answers to PUT /api/tickets/{id}: success with a body, success without one,
\* a 401, any other failure.
PutOutcomes == {"ok", "empty", "401", "failed"}

\* (mutant) a handler that takes every answer but a 401 for a success.
HasData_Unless401(outcome) == outcome # "401"

\* The call did not throw and `if (response.data)` passes.
HasData(outcome) == outcome = "ok"

\* The answers the backend gives to a PUT it applied, and to one it did not apply.
PutAnswers(accepted) == IF accepted THEN {"ok", "empty"} ELSE {"401", "failed"}

\* A call that waits for its answer: whether the backend applied it (a PUT), the
\* tickets the backend read for it (a GET), and what the handler that made the call
\* closed over.
Request(n, kind, ticketId, accepted, data, closure) ==
    [n |-> n, kind |-> kind, id |-> ticketId, accepted |-> accepted, data |-> data,
     closure |-> closure]

\* The dashboard is on screen.
DashShown == route = "dashboard"

\* ------------------------------------------------------------------ fetchTickets
\* The effect calls fetchTickets when the dashboard mounts and every 30 seconds:
\* fetchTickets up to its await, or to its return when there is no token.
FetchTickets ==
    /\ DashShown
    /\ nRequests < MaxCalls
    /\ nRequests' = nRequests + 1
    /\ IF ~token
       THEN /\ dashError' = ErrAuthLogin
            /\ dashLoading' = FALSE
            /\ dashOp' = [op |-> "fetch", outcome |-> "notoken"]
            /\ UNCHANGED requests
       ELSE /\ dashLoading' = TRUE
            /\ dashError' = ""
            /\ requests' = requests \cup
                   {Request(nRequests + 1, "get", 0, TRUE, backend, <<>>)}
            /\ dashOp' = [op |-> "fetch", outcome |-> "sent"]
    /\ UNCHANGED <<assignedTickets, availableTickets, stats, token, route, backend,
                   recorderVars, hostVars>>

\* (mutant) catch blocks that report the 401 and leave the session alone.
SessionExpired_ReportOnly ==
    /\ dashError' = IF DashShown THEN ErrSession ELSE dashError
    /\ UNCHANGED <<token, route>>

\* The catch blocks of the three handlers on a 401: logout() and navigate('/login').
\* The error text is set when the dashboard is still on screen.
SessionExpired ==
    /\ dashError' = IF DashShown THEN ErrSession ELSE dashError
    /\ token' = FALSE
    /\ route' = "login"

\* The answer to a GET arrives: the rest of fetchTickets, its catch and its finally.
GetResponse(r, outcome) ==
    /\ r \in requests /\ r.kind = "get"
    /\ requests' = requests \ {r}
    /\ dashOp' = [op |-> "getResponse", outcome |-> outcome]
    /\ dashLoading' = IF DashShown THEN FALSE ELSE dashLoading
    /\ IF HasData(outcome) /\ DashShown
       THEN /\ assignedTickets' = AgentAssigned(r.data)
            /\ availableTickets' = Unassigned(r.data)
            /\ stats' = FetchedStats(r.data)
       ELSE UNCHANGED <<assignedTickets, availableTickets, stats>>
    /\ IF outcome = "401"
       THEN SessionExpired
       ELSE /\ dashError' = IF ~DashShown THEN dashError
                            ELSE IF outcome = "invalid" THEN ErrFormat
                            ELSE IF outcome = "message" THEN ErrServer
                            ELSE IF outcome = "failed" THEN ErrLoad
                            ELSE dashError
            /\ UNCHANGED <<token, route>>
    /\ UNCHANGED <<backend, nRequests, recorderVars, hostVars>>

\* ------------------------------------------------------------------ handleAssignTicket
\* The Assign to Me button of an available ticket: handleAssignTicket up to its
\* await (the handler keeps the availableTickets of the render it was made in), or
\* to its return when there is no token.  The backend assigns the ticket when it
\* accepts the call.
AssignClick(ticketId, accepted) ==
    /\ DashShown
    /\ FindIndex(availableTickets, ticketId) # 0
    /\ nRequests < MaxCalls
    /\ nRequests' = nRequests + 1
    /\ IF ~token
       THEN /\ dashError' = ErrAuth
            /\ dashOp' = [op |-> "assign", outcome |-> "notoken"]
            /\ UNCHANGED <<requests, backend>>
       ELSE /\ requests' = requests \cup
                   {Request(nRequests + 1, "assign", ticketId, accepted, <<>>,
                            availableTickets)}
            /\ backend' = IF accepted
                          THEN BackendUpdate(backend, ticketId,
                                   [assignedAgentId |-> Me, status |-> InProgress])
                          ELSE backend
            /\ dashOp' = [op |-> "assign", outcome |-> "sent"]
            /\ UNCHANGED dashError
    /\ UNCHANGED <<assignedTickets, availableTickets, stats, dashLoading, token, route,
                   recorderVars, hostVars>>

\* The answer to an assign call arrives: the rest of handleAssignTicket.
AssignResponse(r, outcome) ==
    /\ r \in requests /\ r.kind = "assign"
    /\ outcome \in PutAnswers(r.accepted)
    /\ requests' = requests \ {r}
    /\ dashOp' = [op |-> "assignResponse", outcome |-> outcome]
    /\ LET i == FindIndex(r.closure, r.id)
       IN  IF HasData(outcome) /\ i # 0 /\ DashShown
           THEN LET updatedTicket == [r.closure[i] EXCEPT !.assignedAgentId = Me,
                                                          !.status = InProgress]
                    Keep(t) == t.id # r.id
                IN  /\ availableTickets' = SelectSeq(availableTickets, Keep)
                    /\ assignedTickets' = Append(assignedTickets, updatedTicket)
                    /\ stats' = [stats EXCEPT !.myTickets = @ + 1,
                                              !.available = @ - 1,
                                              !.inProgress = @ + 1]
           ELSE UNCHANGED <<assignedTickets, availableTickets, stats>>
    /\ IF outcome = "401"
       THEN SessionExpired
       ELSE UNCHANGED <<dashError, token, route>>
    /\ UNCHANGED <<dashLoading, backend, nRequests, recorderVars, hostVars>>

\* ------------------------------------------------------------------ handleMarkResolved
\* The Mark Resolved button, rendered for an assigned ticket that is in progress:
\* handleMarkResolved up to its await (the handler keeps the assignedTickets of the
\* render it was made in), or to its return when there is no token.
ResolveClick(ticketId, accepted) ==
    /\ DashShown
    /\ \E i \in DOMAIN assignedTickets :
          assignedTickets[i].id = ticketId /\ assignedTickets[i].status = InProgress
    /\ nRequests < MaxCalls
    /\ nRequests' = nRequests + 1
    /\ IF ~token
       THEN /\ dashError' = ErrAuth
            /\ dashOp' = [op |-> "resolve", outcome |-> "notoken"]
            /\ UNCHANGED <<requests, backend>>
       ELSE /\ requests' = requests \cup
                   {Request(nRequests + 1, "resolve", ticketId, accepted, <<>>,
                            assignedTickets)}
            /\ backend' = IF accepted
                          THEN BackendUpdate(backend, ticketId, [status |-> Resolved])
                          ELSE backend
            /\ dashOp' = [op |-> "resolve", outcome |-> "sent"]
            /\ UNCHANGED dashError
    /\ UNCHANGED <<assignedTickets, availableTickets, stats, dashLoading, token, route,
                   recorderVars, hostVars>>

\* The answer to a mark-resolved call arrives: the rest of handleMarkResolved.
ResolveResponse(r, outcome) ==
    /\ r \in requests /\ r.kind = "resolve"
    /\ outcome \in PutAnswers(r.accepted)
    /\ requests' = requests \ {r}
    /\ dashOp' = [op |-> "resolveResponse", outcome |-> outcome]
    /\ LET i == FindIndex(r.closure, r.id)
           updatedTickets == [j \in DOMAIN r.closure |->
                                 IF r.closure[j].id = r.id
                                 THEN [r.closure[j] EXCEPT !.status = Resolved]
                                 ELSE r.closure[j]]
       IN  IF HasData(outcome) /\ DashShown
           THEN /\ assignedTickets' = updatedTickets
                /\ stats' = IF i # 0 /\ r.closure[i].status = InProgress
                            THEN [stats EXCEPT !.inProgress = @ - 1, !.resolved = @ + 1]
                            ELSE [stats EXCEPT !.resolved = @ + 1]
                /\ UNCHANGED availableTickets
           ELSE UNCHANGED <<assignedTickets, availableTickets, stats>>
    /\ IF outcome = "401"
       THEN SessionExpired
       ELSE UNCHANGED <<dashError, token, route>>
    /\ UNCHANGED <<dashLoading, backend, nRequests, recorderVars, hostVars>>

\* ------------------------------------------------------------------ the session
\* The Logout button: handleLogout.
LogoutClick ==
    /\ DashShown
    /\ token
    /\ token' = FALSE
    /\ route' = "login"
    /\ dashOp' = [op |-> "logout", outcome |-> ""]
    /\ UNCHANGED <<assignedTickets, availableTickets, stats, dashLoading, dashError,
                   backend, requests, nRequests, recorderVars, hostVars>>

\* The auth context drops the token while the dashboard is shown.  The effect
\* depends on the token: it runs again and calls fetchTickets, which reports.
TokenEnds ==
    /\ DashShown
    /\ token
    /\ token' = FALSE
    /\ dashError' = ErrAuthLogin
    /\ dashLoading' = FALSE
    /\ dashOp' = [op |-> "tokenEnds", outcome |-> ""]
    /\ UNCHANGED <<assignedTickets, availableTickets, stats, route, backend, requests,
                   nRequests, recorderVars, hostVars>>

\* ------------------------------------------------------------------ the dashboard's specifications
\* The tickets the backend may hold when the dashboard opens: up to MaxTickets of
\* them, numbered in order, with fields from the given set.
Backends(fields) ==
    UNION {{[i \in 1..n |-> BackendTicket(i, f[i][1], f[i][2], f[i][3])] :
               f \in [1..n -> fields]} : n \in 0..MaxTickets}

\* Well-formed tickets, one that is open and unassigned and one that the agent works
\* on ...
CleanFields == {<<Open, High, Nobody>>, <<InProgress, High, Me>>}

\* ... and tickets whose status and priority come in upper and mixed case, as unknown
\* words, with white space, or empty.
RawFields ==
    {<<<<"O", "P", "E", "N">>, <<"H", "I", "G", "H">>, Nobody>>,
     <<<<"I", "n", "_", "P", "r", "o", "g", "r", "e", "s", "s">>, Low, Me>>,
     <<<<"R", "E", "S", "O", "L", "V", "E", "D">>, <<"u", "r", "g", "e", "n", "t">>, Me>>,
     <<<<"n", "e", "w">>, <<"C", "r", "i", "t", "i", "c", "a", "l">>, Me>>,
     <<<<" ", "o", "p", "e", "n">>, <<>>, Other>>,
     <<<<>>, <<"M", "e", "d", "i", "u", "m", " ">>, Nobody>>}

\* The dashboard's state as first rendered, over a backend that holds the given
\* tickets, while the router shows the given location.
DashAt(location, backends) ==
    /\ assignedTickets = <<>>
    /\ availableTickets = <<>>
    /\ stats = [myTickets |-> 0, inProgress |-> 0, resolved |-> 0, available |-> 0]
    /\ dashLoading = TRUE
    /\ dashError = ""
    /\ token = TRUE
    /\ route = location
    /\ backend \in backends
    /\ requests = {}
    /\ nRequests = 0
    /\ dashOp = [op |-> "init", outcome |-> ""]

\* The dashboard opens over a backend that holds the given tickets.
DashOver(backends) ==
    /\ RecorderInit
    /\ PageInit("form")
    /\ DashAt("dashboard", backends)

\* The polls and their answers.
Polling ==
    \/ FetchTickets
    \/ \E r \in requests, outcome \in GetOutcomes : GetResponse(r, outcome)

DashNext ==
    \/ Polling
    \/ \E ticketId \in 1..MaxTickets, accepted \in BOOLEAN : AssignClick(ticketId, accepted)
    \/ \E r \in requests, outcome \in PutOutcomes : AssignResponse(r, outcome)
    \/ \E ticketId \in 1..MaxTickets, accepted \in BOOLEAN : ResolveClick(ticketId, accepted)
    \/ \E r \in requests, outcome \in PutOutcomes : ResolveResponse(r, outcome)
    \/ LogoutClick
    \/ TokenEnds

\* The dashboard over a backend with well-formed tickets.
DashSpec == DashOver(Backends(CleanFields)) /\ [][DashNext]_vars

\* The dashboard's polling over a backend with tickets of any form.
FetchSpec == DashOver(Backends(RawFields)) /\ [][Polling]_vars

\* ================================================================== the recorder on the page
\* The page renders <ScreenRecorder onRecordingComplete={handleRecordingComplete}
\* ticketNumber="NEW" /> while the recorder tab is open, and only then.

\* Save & Attach to Ticket: saveRecording, and inside it the page's
\* handleRecordingComplete with the blob that was assembled.
HostedSave ==
    /\ SaveRecording
    /\ IF SaveAccepted
       THEN AttachRecording(Len(Blob(recordedChunks)))
       ELSE UNCHANGED hostVars
    /\ UNCHANGED dashVars

\* The two-second timeout fires: the form tab is set, and a recorder that is on
\* screen is unmounted by the render that follows.
HostedTabTimeout ==
    /\ SwitchToForm
    /\ IF mounted THEN Teardown ELSE UNCHANGED recorderVars
    /\ UNCHANGED dashVars

\* The user goes back to the form tab: the recorder is unmounted.
HostedSelectForm ==
    /\ mounted
    /\ SetActiveTab("form")
    /\ Teardown
    /\ UNCHANGED dashVars

\* The recorder tab is open.
HostedInit == RecorderInit /\ PageInit("recorder") /\ DashInit

HostedNext ==
    \/ StartClick
    \/ Capturing
    \/ HostedSave
    \/ HostedTabTimeout
    \/ HostedSelectForm

\* The page from the moment the recorder tab is opened until it is left.
HostedSpec == HostedInit /\ [][HostedNext]_vars

\* ------------------------------------------------------------------ every call of the API
\* The backends that are full: one ticket for each id.
FullBackends(fields) == {b \in Backends(fields) : Len(b) = MaxTickets}

\* The router shows one of the two pages that call the API: the agent's dashboard or
\* the client's ticket form.
SessionInit ==
    \E location \in {"dashboard", "create"} :
        /\ RecorderInit
        /\ PageAt(location, "form")
        /\ DashAt(location, FullBackends(CleanFields))

\* All four calls with all their answers: the dashboard's GET and PUTs, and the POST
\* of a form that is filled in with valid values.
SessionNext ==
    \/ DashNext
    \/ FormEdits({<<"a">>}, {"api"})
    \/ HandleSubmit
    \/ AfterSubmit
    \/ SessionEnds

SessionSpec == SessionInit /\ [][SessionNext]_vars

\* ================================================================== claims

\* The session a delivered call belongs to exists, and so does its recorder.
Sessions == 0..MaxSessions

\* ------------------------------------------------------------------ C1
\* C1: whenever saveRecording calls onRecordingComplete, the payload is the
\* concatenation, in arrival order, of every segment the session's recorder emitted
\* between start and stop, the final segment flushed by the stop included: nothing
\* is lost, duplicated or reordered.
C1_PayloadIsConcatenation ==
    [][delivered' # NoCall =>
          /\ delivered'.session \in Ids
          /\ delivered'.blob = Blob(recorders[delivered'.session].emitted)]_vars

\* A payload made of two segments was delivered: a timeslice segment and the final one.
C1_Witness ==
    /\ delivered # NoCall
    /\ \E i, j \in DOMAIN delivered.blob : delivered.blob[i][2] # delivered.blob[j][2]
    /\ recorders[delivered.session].stops = 1

\* ------------------------------------------------------------------ C2
\* C2: onRecordingComplete is called at most once for a capture session, never for a
\* session that was discarded (a save command after the discard included), and never
\* without a session being previewed.
C2_AtMostOneCallback ==
    /\ \A k \in Sessions : nCalls[k] <= 1
    /\ \A k \in discarded : nCalls[k] = 0
    /\ nCalls[NoUrl] = 0

\* A save command was issued after the only session had been discarded, while the
\* preview was still fading out.
C2_Witness ==
    /\ lastOp = "save"
    /\ nStarts = 1
    /\ discarded = {1}
    /\ nCalls[1] = 0

\* ------------------------------------------------------------------ C3
\* The capture stream is held: the component's stream state is set, or tracks of a
\* stream it opened are still live.
StreamHeld == stream # NoStream \/ \E k \in Ids : tracks[k] = "live"

\* C3: while the component is mounted, a capture stream is held only if the session
\* is requesting or recording, and it is held whenever the session is recording; in
\* particular no stream is held once the session is back in idle.
C3_StreamHeldIffActive ==
    mounted =>
        /\ StreamHeld => status \in {"requesting", "recording"}
        /\ status = "recording" => StreamHeld

\* ------------------------------------------------------------------ C4
\* C4: a preview URL is never revoked twice, and every preview URL that was created
\* and is no longer the one being previewed has been revoked exactly once.
C4_PreviewReleasedExactlyOnce ==
    \A k \in Ids :
        /\ urlRevoked[k] <= 1
        /\ (urlCreated[k] /\ recordingPreview # k) => urlRevoked[k] = 1

\* ------------------------------------------------------------------ C5
\* C5: the ended event of the video track of a recording session stops the recorder
\* exactly once: the recorder becomes inactive with its stop task queued and the
\* session leaves recording; stop() is never called on a recorder that is not
\* recording, nor twice on one recorder, whatever stop commands and revocations
\* occur; no recorder keeps recording on an ended stream; and the stop task puts
\* every segment the recorder emitted, the final one included, into recordedChunks.
C5_RevokeStopsOnce ==
    /\ [](\A k \in Ids : /\ recorders[k].stops <= 1
                         /\ recorders[k].badStops = 0
                         /\ tracks[k] = "ended" => recorders[k].state # "recording")
    /\ [][\A k \in Ids :
            (lastOp' = "revoke" /\ tracks[k] = "live" /\ tracks'[k] = "ended"
                /\ recorders[k].state = "recording")
            => /\ recorders'[k].state = "inactive"
               /\ recorders'[k].stopPending
               /\ recorders'[k].stops = 1
               /\ mounted => ~isRecording']_vars
    /\ [](lastOp = "onstop" /\ mounted =>
            /\ Blob(recordedChunks) = Blob(recorders[recordingPreview].emitted)
            /\ Len(recorders[recordingPreview].emitted) >= 1)

\* The stop task of a session that the revocation stopped has run, and the final
\* segment it flushed is stored after an earlier one.
C5_Witness ==
    /\ lastOp = "onstop"
    /\ mounted
    /\ tracks[recordingPreview] = "ended"
    /\ stream = recordingPreview
    /\ recorders[recordingPreview].stops = 1
    /\ Len(recordedChunks) = 2

\* ------------------------------------------------------------------ C6
\* C6: at most one capture stream is open at a time, and a start command is accepted
\* only in idle: never while a recorder that stopped has its stop task still queued
\* (the stopped state), nor while requesting, recording or previewing.
C6_StartOnlyWhenIdle ==
    /\ Cardinality({k \in Ids : tracks[k] = "live"}) <= 1
    /\ lastOp = "start" =>
          /\ StopTasksDelivered
          /\ ~isRecording
          /\ ~showPreview
          /\ Cardinality({k \in Ids : recorders[k].state = "recording"}) = 0

\* ------------------------------------------------------------------ C7
\* C7, as stated: every save command issued while the preview is shown calls
\* onRecordingComplete with the assembled payload and the current name, releases the
\* preview URL, clears recordedChunks, recordingName and recordingSize, and leaves
\* the session idle with the preview closed.
C7_SaveAlwaysDelivers ==
    [][(lastOp' = "save" /\ showPreview) =>
          /\ delivered' # NoCall
          /\ delivered'.blob = Blob(recordedChunks)
          /\ delivered'.fileName = recordingName
          /\ urlRevoked'[recordingPreview] = urlRevoked[recordingPreview] + 1
          /\ recordedChunks' = <<>>
          /\ recordingName' = ""
          /\ recordingSize' = 0
          /\ status' = "idle"]_vars

\* C7, amended: a save command issued while the preview is shown and at least one
\* segment is stored calls onRecordingComplete once, with the concatenation of the
\* stored segments and with the name field's value, or the time-stamped fallback name
\* when the field is empty; it releases the preview URL once, clears recordedChunks,
\* recordingPreview, recordingName and recordingSize, closes the preview and touches
\* neither isRecording nor isLoading.  With no segment stored the command changes
\* nothing and the preview stays open.
C7_SaveDeliversStoredSegments ==
    [][(lastOp' = "save" /\ showPreview) =>
          IF recordedChunks # <<>>
          THEN /\ delivered' = [blob |-> Blob(recordedChunks),
                                fileName |-> IF recordingName = "" THEN FallbackName
                                             ELSE recordingName,
                                session |-> recordingPreview]
               /\ nCalls'[recordingPreview] = nCalls[recordingPreview] + 1
               /\ urlRevoked'[recordingPreview] = urlRevoked[recordingPreview] + 1
               /\ recordedChunks' = <<>>
               /\ recordingPreview' = NoUrl
               /\ recordingName' = ""
               /\ recordingSize' = 0
               /\ ~showPreview'
               /\ UNCHANGED <<isRecording, isLoading, stream, tracks>>
          ELSE /\ delivered' = NoCall
               /\ UNCHANGED <<reactVars, nCalls, urlRevoked>>]_vars

\* A recording of two segments was saved under a name the user typed, and the
\* session is idle again.
C7_Witness ==
    /\ lastOp = "save"
    /\ delivered # NoCall
    /\ delivered.fileName = CustomName
    /\ Len(delivered.blob) = 2
    /\ urlRevoked[delivered.session] = 1
    /\ status = "idle"

\* ------------------------------------------------------------------ C8
\* The segments of the current session: those the recorder has collected while it
\* records or waits for its stop task, the stored ones otherwise.
CurrentSegments ==
    IF mediaRecorder # NoRec /\ (recorders[mediaRecorder].state = "recording"
                                 \/ recorders[mediaRecorder].stopPending)
    THEN recorders[mediaRecorder].chunks
    ELSE recordedChunks

\* C8: while the component is mounted, recordingSize is the sum of the sizes of the
\* segments received so far in the current session, whatever ticks interleave.
C8_SizeIsSumOfSegments == mounted => recordingSize = SumSizes(CurrentSegments)

\* ------------------------------------------------------------------ C9
\* C9: right after discardRecording the preview URL of the discarded session has been
\* revoked (once), recordedChunks is empty, recordingName is empty, recordingSize is
\* 0, the preview is closed, the stream state is null and no track is live.
C9_DiscardLeavesNothing ==
    lastOp = "discard" =>
        /\ \A k \in discarded : urlRevoked[k] = 1
        /\ recordedChunks = <<>>
        /\ recordingPreview = NoUrl
        /\ recordingName = ""
        /\ recordingSize = 0
        /\ ~showPreview
        /\ stream = NoStream
        /\ \A k \in Ids : tracks[k] # "live"

\* A session that the external revocation stopped, and whose stream state was still
\* set, was discarded.
C9_Witness ==
    /\ lastOp = "discard"
    /\ discarded = {1}
    /\ urlCreated[1]
    /\ recorders[1].stops = 1
    /\ effStream = NoStream
    /\ timerRef = 1

\* ------------------------------------------------------------------ C10
\* C10: right after the teardown no interval timer is armed and no track is live,
\* and the teardown calls onRecordingComplete neither then nor at any later time.
C10_TeardownReleases ==
    /\ lastOp = "unmount" => (timers = {} /\ \A k \in Ids : tracks[k] # "live")
    /\ ~mounted => delivered = NoCall

\* The component was torn down while it was recording: the recorder lost its stream
\* and its stop task is queued.
C10_Witness ==
    /\ lastOp = "unmount"
    /\ \E k \in Ids : /\ tracks[k] = "ended"
                      /\ recorders[k].stopPending
                      /\ recorders[k].stops = 0
                      /\ timerRef = k

\* ------------------------------------------------------------------ C11
\* C11: right after a capture request is rejected with NotAllowedError the component
\* is neither recording nor loading, the error shown is the permission-denied
\* message, which differs from the no-source and unknown-failure messages, and no
\* capture stream is held.
C11_DenialReturnsToIdle ==
    (lastOp = "NotAllowedError" /\ mounted) =>
        /\ ~isRecording
        /\ ~isLoading
        /\ error = ErrDenied
        /\ ErrDenied \notin {ErrNotFound, ErrFailed, ErrRecording}
        /\ ~StreamHeld

\* ------------------------------------------------------------------ C12
\* The Start Recording button is on screen, enabled and not behind the preview modal.
StartAvailable == mounted /\ ~isRecording /\ ~isLoading /\ ~showPreview /\ ~modalFading

\* C12: after each of the four error conditions (a capture request rejected with
\* NotAllowedError, with NotFoundError or with another error, a start that fails
\* after the grant, a failure of the recording pipe) the component, unless it is
\* unmounted, eventually offers the start command again, given that queued tasks run
\* and that the user dismisses the preview.
C12_ErrorsRecoverable ==
    [](((lastOp \in ErrNames \cup {"grantfail", "error"}) /\ mounted)
          => <>(StartAvailable \/ ~mounted))

\* ------------------------------------------------------------------ C13
\* The session is recording: the flag is set and the session's recorder records.
Recording ==
    /\ mounted /\ isRecording
    /\ mediaRecorder # NoRec /\ recorders[mediaRecorder].state = "recording"

\* C13: on entering recording recordingTime is 0, and as long as the session is
\* recording the interval timer armed for it (the one timerRef holds) is armed, so
\* that its ticks keep adding one to recordingTime.
C13_TimerArmedWhileRecording ==
    /\ (lastOp = "grant" /\ mounted) => recordingTime = 0
    /\ Recording => (timerRef # NoTimer /\ timerRef \in timers)

\* ------------------------------------------------------------------ C14
\* C14: in every state where the session is not recording no interval timer is
\* armed, and no step taken from such a state to such a state adds to recordingTime.
C14_NoTimerUnlessRecording ==
    /\ [](~Recording => timers = {})
    /\ [][(~Recording /\ ~Recording') => recordingTime' <= recordingTime]_vars

\* ------------------------------------------------------------------ C15
\* Recorder k was stopped by the step just taken, a stop command or an external
\* revocation, and the component is mounted.
JustStopped(k) ==
    /\ lastOp \in {"stop", "revoke"}
    /\ mounted
    /\ recorders[k].state = "inactive"
    /\ recorders[k].stops = 1
    /\ ~urlCreated[k]

\* The preview of session k has just been opened by the recorder's stop event: the
\* segments are stored, the preview URL is created and set, the name is the default
\* name and the modal is shown.
PreviewOpened(k) ==
    /\ lastOp = "onstop"
    /\ recordedChunks # <<>> => Blob(recordedChunks) = Blob(recorders[k].emitted)
    /\ urlCreated[k]
    /\ recordingPreview = k
    /\ recordingName = DefaultName
    /\ showPreview

\* C15, as stated: after a stop command or an external revocation while recording,
\* the preview of the session is always eventually opened.
C15_StopLeadsToPreview ==
    \A k \in Ids : JustStopped(k) ~> PreviewOpened(k)

\* C15, amended: after a stop command or an external revocation while recording, the
\* preview of the session is eventually opened, unless the component is unmounted
\* before the recorder's stop event is delivered.
C15_StopLeadsToPreviewUnlessUnmounted ==
    \A k \in Ids : JustStopped(k) ~> (PreviewOpened(k) \/ ~mounted)

\* The preview of a session that the external revocation stopped has been opened
\* with two segments stored.
C15_Witness ==
    /\ PreviewOpened(1)
    /\ recorders[1].stops = 1
    /\ tracks[1] = "ended"
    /\ stream = 1
    /\ Len(recordedChunks) = 2
    /\ ~isLoading

\* ------------------------------------------------------------------ C16
\* C16: while the component is mounted recordedChunks is non-empty only if the
\* session is stopped or previewing, and right after a save that was accepted or a
\* discard it is empty.
C16_SegmentsOnlyWhilePreviewing ==
    mounted =>
        /\ recordedChunks # <<>> => status \in {"stopped", "previewing"}
        /\ (lastOp = "save" /\ delivered # NoCall) => recordedChunks = <<>>
        /\ lastOp = "discard" => recordedChunks = <<>>

\* ------------------------------------------------------------------ C17
\* C17, as stated: the fileName passed to onRecordingComplete is the value of the
\* name field at the time of the save, which is the default name until the user
\* edits it, whatever the user made of it, the empty name included.
C17_FileNameIsFieldValue ==
    [][delivered' # NoCall => delivered'.fileName = recordingName]_vars

\* C17, amended: the name field holds the default name when the preview opens and
\* changes only by the user's edits (and is emptied when the session's state is
\* cleared); the fileName passed to onRecordingComplete is the field's value at the
\* time of the save when that is not empty, and the time-stamped fallback name when
\* the user cleared the field.
C17_FileNameIsFieldValueOrFallback ==
    /\ [][lastOp' \in {"onstop", "error"} /\ mounted => recordingName' = DefaultName]_vars
    /\ [][recordingName' # recordingName =>
             \/ lastOp' = "edit"
             \/ lastOp' \in {"onstop", "error"} /\ recordingName' = DefaultName
             \/ lastOp' \in {"save", "discard", "unmount"} /\ recordingName' = ""]_vars
    /\ [][delivered' # NoCall =>
             /\ recordingName # "" => delivered'.fileName = recordingName
             /\ recordingName = "" => delivered'.fileName = FallbackName
             /\ delivered'.fileName # ""]_vars

\* A recording was saved after the user had cleared the name field.
C17_Witness ==
    /\ lastOp = "save"
    /\ delivered # NoCall
    /\ delivered.fileName = FallbackName
    /\ delivered.blob # <<>>
    /\ recorders[delivered.session].stops = 1

\* ------------------------------------------------------------------ C18
\* C18: on the ticket page an attachment of the list carries the Recording badge
\* (it is in recordedVideos) if and only if the recorder's callback created it, and
\* the files of a POST are the attachments listed when it was sent.
C18_BadgeIffRecorded ==
    /\ \A i \in DOMAIN selectedFiles :
          Includes(recordedVideos, selectedFiles[i]) <=> selectedFiles[i].recorded
    /\ (hostOp = "submit" /\ inFlight > 0) => posted[Len(posted)].Files = selectedFiles

Blank(s) == \A i \in DOMAIN s : s[i] = " "

\* The message for the first required field that is missing, "" when none is.
FirstMissing ==
    IF Blank(formData.subject) THEN ErrSubject
    ELSE IF Blank(formData.description) THEN ErrDescription
    ELSE IF selectedCategory = "" THEN ErrCategory
    ELSE IF formData.module = "" THEN ErrModule
    ELSE ""

\* C20: a submission with a required field missing sets the message of the first
\* missing field, sends no request and leaves isSubmitting false; the four messages
\* differ from each other.
C20_MissingFieldRejectedLocally ==
    /\ [][(hostOp' = "submit" /\ FirstMissing # "") =>
            /\ ticketError' = FirstMissing
            /\ posted' = posted
            /\ inFlight' = inFlight
            /\ ~isSubmitting'
            /\ page' = page]_vars
    /\ [](Cardinality({ErrSubject, ErrDescription, ErrCategory, ErrModule}) = 4)

\* A form whose subject is filled in and whose description is white space only was
\* submitted and rejected.
C20_Witness ==
    /\ hostOp = "submit"
    /\ formData.subject = <<"a">>
    /\ formData.description = <<" ">>
    /\ ticketError = ErrDescription
    /\ posted = <<>>
    /\ ~isSubmitting

\* ------------------------------------------------------------------ C23
\* The list without the element at the 0-based position i.
WithoutPosition(list, i) ==
    [j \in 1..(Len(list) - 1) |-> IF j <= i THEN list[j] ELSE list[j + 1]]

C28_ErrorBranchReleasesStream ==
    (mounted /\ (lastOp = "grantfail" \/ lastOp \in ErrNames)) =>
        /\ ~StreamHeld
        /\ ~isLoading
        /\ ~isRecording

\* ------------------------------------------------------------------ C29
\* C29: at most one POST /api/tickets is in flight at any time; while the form is on
\* screen isSubmitting is true exactly while a POST waits for its answer (so it is
\* false again after handleSubmit finished, on every path), and handleSubmit never
\* starts while a POST is in flight, the submit button being disabled.
C29_OnePostInFlight ==
    [][/\ inFlight' <= 1
       /\ page' = "create" => (isSubmitting' <=> inFlight' = 1)
       /\ hostOp' = "submit" => inFlight = 0
       /\ inFlight' > inFlight => isSubmitting']_vars

\* Witness: a second ticket was sent after the first was answered, and waits for its
\* answer with the form still on screen.
C29_Witness ==
    /\ Len(posted) = 2
    /\ inFlight = 1
    /\ isSubmitting
    /\ page = "create"
    /\ hostOp = "submit"

\* ------------------------------------------------------------------ C27
\* The session that is requesting or recording, or 0: the request in flight, else the
\* recorder the component holds while that recorder records.
ActiveSession ==
    IF ~mounted THEN 0
    ELSE IF pendingRequest # 0 THEN pendingRequest
    ELSE IF isRecording /\ mediaRecorder # NoRec
            /\ recorders[mediaRecorder].state = "recording" THEN mediaRecorder
    ELSE 0

\* C27: when the delayed switch to the form tab fires that a save scheduled, and a
\* session started after that save is requesting or recording, the recorder stays
\* mounted (and so its stream is not stopped by the effect cleanup).
C27_TabTimerSparesActiveSession ==
    [][(/\ tabTimers # <<>>
        /\ tabTimers' = Tail(tabTimers)
        /\ ActiveSession > Head(tabTimers)) => mounted']_vars

\* ------------------------------------------------------------------ C22
\* Two texts that differ in the case of their letters at most.
CaseEq(a, b) ==
    /\ Len(a) = Len(b)
    /\ \A i \in 1..Len(a) :
          \/ a[i] = b[i]
          \/ \E k \in DOMAIN UpperCase : {a[i], b[i]} = {UpperCase[k], LowerCase[k]}

\* The value the specification assigns to a raw status or priority: the recognized
\* value it spells in some letter case, else the default.
Normalized(raw, recognized, default) ==
    IF \E i \in DOMAIN recognized : CaseEq(raw, recognized[i])
    THEN recognized[CHOOSE i \in DOMAIN recognized : CaseEq(raw, recognized[i])]
    ELSE default

\* The tickets the dashboard shows.
Shown == {assignedTickets[i] : i \in DOMAIN assignedTickets}
            \cup {availableTickets[i] : i \in DOMAIN availableTickets}

\* C22: every ticket the dashboard shows after a fetch has a status among open,
\* in_progress, resolved, closed, pending and a priority among low, medium, high,
\* critical: the lower-case form of the backend's value when that is a recognized
\* value in any letter case, else open (status) or medium (priority).  The tickets
\* counted as resolved are those whose backend status spells resolved.
C22_StatusAndPriorityNormalized ==
    /\ \A t \in Shown :
          /\ t.id \in DOMAIN backend
          /\ t.status = Normalized(backend[t.id].status, validStatuses, Open)
          /\ t.priority = Normalized(backend[t.id].priority, validPriorities, Medium)
          /\ t.status \in {Open, InProgress, Resolved, Closed, Pending}
          /\ t.priority \in {Low, Medium, High, Critical}
    /\ (DashShown /\ dashOp = [op |-> "getResponse", outcome |-> "ok"]) =>
          stats.resolved = Cardinality({i \in DOMAIN backend :
              /\ backend[i].assignedAgentId = Me
              /\ CaseEq(backend[i].status, Resolved)})

\* Witness: a fetch has shown a ticket whose status was spelled In_Progress and one
\* whose status was the unknown word new, with a priority spelled Critical.
C22_Witness ==
    /\ DashShown
    /\ dashOp = [op |-> "getResponse", outcome |-> "ok"]
    /\ \E t \in Shown :
          /\ backend[t.id].status = <<"I", "n", "_", "P", "r", "o", "g", "r", "e", "s", "s">>
          /\ t.status = InProgress
    /\ \E t \in Shown :
          /\ backend[t.id].status = <<"n", "e", "w">>
          /\ t.status = Open
          /\ t.priority = Critical

\* ------------------------------------------------------------------ C24
\* C24: while the dashboard is shown, stats.myTickets is the number of entries of
\* assignedTickets, stats.available the number of entries of availableTickets, and
\* no counter is negative.
C24_StatsMatchLists ==
    DashShown =>
        /\ stats.myTickets = Len(assignedTickets)
        /\ stats.available = Len(availableTickets)
        /\ stats.myTickets >= 0 /\ stats.inProgress >= 0
        /\ stats.resolved >= 0 /\ stats.available >= 0

\* ------------------------------------------------------------------ C25
\* C25: no ticket id appears twice in assignedTickets, and none is in assignedTickets
\* and in availableTickets at the same time.
C25_NoDuplicateTickets ==
    DashShown =>
        /\ \A i, j \in DOMAIN assignedTickets :
              assignedTickets[i].id = assignedTickets[j].id => i = j
        /\ \A i \in DOMAIN assignedTickets, j \in DOMAIN availableTickets :
              assignedTickets[i].id # availableTickets[j].id

\* ------------------------------------------------------------------ C26
\* C26: the completion of a mark-resolved request removes no ticket from
\* assignedTickets: every ticket that was in the list (a ticket an assign has added
\* since the request was issued included) is still in it.
C26_ResolveKeepsAssigned ==
    [][(DashShown /\ dashOp'.op = "resolveResponse") =>
          \A i \in DOMAIN assignedTickets :
              \E j \in DOMAIN assignedTickets' :
                  assignedTickets'[j].id = assignedTickets[i].id]_vars

\* ------------------------------------------------------------------ C30
\* The last step was an assign or mark-resolved call that failed: it was answered
\* with an error status, or it was not sent because there is no token.
PutFailed(op) ==
    \/ op.op \in {"assignResponse", "resolveResponse"} /\ op.outcome \in {"401", "failed"}
    \/ op.op \in {"assign", "resolve"} /\ op.outcome = "notoken"

\* C30: a step in which an assign or a mark-resolved call fails leaves
\* assignedTickets, availableTickets and stats as they were.
C30_FailedPutChangesNothing ==
    [][PutFailed(dashOp') => UNCHANGED <<assignedTickets, availableTickets, stats>>]_vars

\* Witness: a mark-resolved call has been answered with an error status while the
\* dashboard shows the ticket in progress and another ticket as available.
C30_Witness ==
    /\ DashShown
    /\ dashOp = [op |-> "resolveResponse", outcome |-> "failed"]
    /\ Len(assignedTickets) = 1
    /\ assignedTickets[1].status = InProgress
    /\ Len(availableTickets) = 1
    /\ stats = [myTickets |-> 1, inProgress |-> 1, resolved |-> 0, available |-> 1]

\* ------------------------------------------------------------------ C21
\* This step handles the answer to a dashboard call (fetch, assign or mark-resolved).
DashAnswered == requests' # requests
\* This step handles the answer to the POST that creates a ticket.
PostAnswered == inFlight' = inFlight - 1

\* C21: a step that handles a 401 answer to a ticket fetch, an assign, a
\* mark-resolved or a ticket creation clears the session and shows the login
\* page, and a step that handles any other answer leaves session and location as
\* they were.
C21_OnlyA401LogsOut ==
    [][/\ (DashAnswered /\ dashOp'.outcome = "401") => (~token' /\ route' = "login")
       /\ (DashAnswered /\ dashOp'.outcome # "401") => UNCHANGED <<token, route>>
       /\ (PostAnswered /\ hostOp' = "401") => (~isAuthenticated' /\ page' = "login")
       /\ (PostAnswered /\ hostOp' # "401") => UNCHANGED <<isAuthenticated, page>>]_vars

\* Witness: the dashboard showed a ticket, Assign to Me was answered with a 401, and
\* the agent is signed out and on the login page.
C21_Witness ==
    /\ dashOp = [op |-> "assignResponse", outcome |-> "401"]
    /\ Len(availableTickets) > 0
    /\ dashError = ErrSession
    /\ ~token
    /\ route = "login"

====
